---- MODULE Spec2Model ----
(***************************************************************************)
(* intpbk: the lexer (src/src/lexer.rs) and the Pratt parser               *)
(* (src/src/parser.rs) of a small interpreted language, as a state machine.*)
(* Source text is a sequence of bytes (0..127), tokens are records, the    *)
(* parser runs step by step over an explicit call stack.                   *)
(***************************************************************************)
EXTENDS Integers, Sequences, FiniteSets, TLC

VARIABLES
    l,          \* a Lexer driven directly through Lexer::next_token
    toks,       \* the tokens l has returned so far, in call order
    parser,     \* the Parser: [lexer, cur_token, peek_token, errors]
    stack,      \* the parser's call stack, innermost frame last
    ret,        \* the value the last returning parse function handed back
    statements, \* parse_program's local `statements`
    status,     \* "running" | "done" | "panic" | "idle"
    todo,       \* sources still to be handed to create_program
    results     \* one [input, program, errors] per finished create_program

vars == <<l, toks, parser, stack, ret, statements, status, todo, results>>

(***************************************************************************)
(* Bytes.  Printable[i] is the ASCII character with code 31 + i.           *)
(***************************************************************************)
Printable ==
    << " ", "!", "DQUOTE", "#", "$", "%", "&", "'", "(", ")", "*", "+", ",", "-", ".", "/",
       "0", "1", "2", "3", "4", "5", "6", "7", "8", "9", ":", ";", "<", "=", ">", "?",
       "@", "A", "B", "C", "D", "E", "F", "G", "H", "I", "J", "K", "L", "M", "N", "O",
       "P", "Q", "R", "S", "T", "U", "V", "W", "X", "Y", "Z", "[", "BSLASH", "]", "^", "_",
       "BQUOTE", "a", "b", "c", "d", "e", "f", "g", "h", "i", "j", "k", "l", "m", "n", "o",
       "p", "q", "r", "s", "t", "u", "v", "w", "x", "y", "z", "{", "|", "}", "~" >>

\* b'c': the byte of the character c
Ord(c) == 31 + (CHOOSE i \in 1..Len(Printable) : Printable[i] = c)

\* the bytes of a text given as a tuple of characters
Str(cs) == [i \in 1..Len(cs) |-> Ord(cs[i])]

RECURSIVE Concat(_)
Concat(ss) == IF ss = <<>> THEN <<>> ELSE Head(ss) \o Concat(Tail(ss))

(***************************************************************************)
(* Token (lexer.rs:4-35): a tag, and the text an Ident or Int carries.     *)
(***************************************************************************)
Tok(type) == [type |-> type, lit |-> <<>>]
IdentTok(text) == [type |-> "Ident", lit |-> text]
IntTok(text) == [type |-> "Int", lit |-> text]
Eof == Tok("Eof")
Semicolon == Tok("Semicolon")
Assign == Tok("Assign")

\* Option<Token>::None
NoToken == [type |-> "None", lit |-> <<>>]

\* impl Display for Token: the token's text, as bytes
TokenDisplay(t) ==
    CASE t.type = "Illegal" -> Str(<<"I", "l", "l", "e", "g", "a", "l">>)
      [] t.type = "Eof" -> Str(<<"E", "O", "F">>)
      [] t.type = "Ident" -> t.lit
      [] t.type = "Int" -> t.lit
      [] t.type = "Assign" -> Str(<<"=">>)
      [] t.type = "Plus" -> Str(<<"+">>)
      [] t.type = "Minus" -> Str(<<"-">>)
      [] t.type = "Bang" -> Str(<<"!">>)
      [] t.type = "Asterisk" -> Str(<<"*">>)
      [] t.type = "Slash" -> Str(<<"/">>)
      [] t.type = "Lt" -> Str(<<"<">>)
      [] t.type = "Gt" -> Str(<<">">>)
      [] t.type = "Eq" -> Str(<<"=", "=">>)
      [] t.type = "Neq" -> Str(<<"!", "=">>)
      [] t.type = "Comma" -> Str(<<",">>)
      [] t.type = "Semicolon" -> Str(<<";">>)
      [] t.type = "Lparen" -> Str(<<"(">>)
      [] t.type = "Rparen" -> Str(<<")">>)
      [] t.type = "Lbrace" -> Str(<<"{">>)
      [] t.type = "Rbrace" -> Str(<<"}">>)
      [] t.type = "Function" -> Str(<<"f", "n">>)
      [] t.type = "Let" -> Str(<<"l", "e", "t">>)
      [] t.type = "True" -> Str(<<"t", "r", "u", "e">>)
      [] t.type = "False" -> Str(<<"f", "a", "l", "s", "e">>)
      [] t.type = "If" -> Str(<<"i", "f">>)
      [] t.type = "Else" -> Str(<<"e", "l", "s", "e">>)
      [] t.type = "Return" -> Str(<<"r", "e", "t", "u", "r", "n">>)

(***************************************************************************)
(* Lexer (lexer.rs:75-200).  A lexer is [input, pos, read_pos, ch];        *)
(* input[k] of the source is input[k + 1] here.                            *)
(***************************************************************************)
\* mutant: read_char leaves pos where it was
read_char_stale_pos(lx) ==
    [lx EXCEPT !.ch = IF lx.read_pos >= Len(lx.input) THEN 0
                      ELSE lx.input[lx.read_pos + 1],
               !.read_pos = lx.read_pos + 1]

read_char(lx) ==
    [lx EXCEPT !.ch = IF lx.read_pos >= Len(lx.input) THEN 0
                      ELSE lx.input[lx.read_pos + 1],
               !.pos = lx.read_pos,
               !.read_pos = lx.read_pos + 1]

Lexer_new(input) ==
    read_char([input |-> input, pos |-> 0, read_pos |-> 0, ch |-> 0])

\* mutant: the peek returns the current byte
peek_char_current(lx) == lx.ch

peek_char(lx) ==
    IF lx.read_pos >= Len(lx.input) THEN 0 ELSE lx.input[lx.read_pos + 1]

is_letter(ch) ==
    \/ Ord("a") <= ch /\ ch <= Ord("z")
    \/ Ord("A") <= ch /\ ch <= Ord("Z")
    \/ ch = Ord("_")

\* u8::is_ascii_digit
is_ascii_digit(ch) == Ord("0") <= ch /\ ch <= Ord("9")

\* u8::is_ascii_whitespace: space, tab, line feed, form feed, carriage return
is_ascii_whitespace(ch) == ch \in {32, 9, 10, 12, 13}

RECURSIVE skip_whitespace(_)
skip_whitespace(lx) ==
    IF is_ascii_whitespace(lx.ch) THEN skip_whitespace(read_char(lx)) ELSE lx

RECURSIVE ident_end(_)
ident_end(lx) == IF is_letter(lx.ch) THEN ident_end(read_char(lx)) ELSE lx

\* the lexer past the identifier, and input[pos..self.pos]
read_ident(lx) ==
    LET after == ident_end(lx)
    IN  [lexer |-> after, text |-> SubSeq(lx.input, lx.pos + 1, after.pos)]

RECURSIVE number_end(_)
number_end(lx) == IF is_ascii_digit(lx.ch) THEN number_end(read_char(lx)) ELSE lx

read_number(lx) ==
    LET after == number_end(lx)
    IN  [lexer |-> after, text |-> SubSeq(lx.input, lx.pos + 1, after.pos)]

lookup_ident(ident) ==
    CASE ident = Str(<<"f", "n">>) -> Tok("Function")
      [] ident = Str(<<"l", "e", "t">>) -> Tok("Let")
      [] ident = Str(<<"t", "r", "u", "e">>) -> Tok("True")
      [] ident = Str(<<"f", "a", "l", "s", "e">>) -> Tok("False")
      [] ident = Str(<<"i", "f">>) -> Tok("If")
      [] ident = Str(<<"e", "l", "s", "e">>) -> Tok("Else")
      [] ident = Str(<<"r", "e", "t", "u", "r", "n">>) -> Tok("Return")
      [] OTHER -> IdentTok(ident)

\* Lexer::next_token: the token returned and the lexer afterwards
Lexer_next_token(lx0) ==
    LET lx == skip_whitespace(lx0)
        c == lx.ch
        one(type) == [token |-> Tok(type), lexer |-> read_char(lx)]
    IN  CASE c = Ord("=") ->
                IF peek_char(lx) = Ord("=")
                THEN [token |-> Tok("Eq"), lexer |-> read_char(read_char(lx))]
                ELSE one("Assign")
          [] c = Ord("!") ->
                IF peek_char(lx) = Ord("=")
                THEN [token |-> Tok("Neq"), lexer |-> read_char(read_char(lx))]
                ELSE one("Bang")
          [] c = Ord("+") -> one("Plus")
          [] c = Ord("-") -> one("Minus")
          [] c = Ord("/") -> one("Slash")
          [] c = Ord("*") -> one("Asterisk")
          [] c = Ord("<") -> one("Lt")
          [] c = Ord(">") -> one("Gt")
          [] c = Ord(";") -> one("Semicolon")
          [] c = Ord("(") -> one("Lparen")
          [] c = Ord(")") -> one("Rparen")
          [] c = Ord(",") -> one("Comma")
          [] c = Ord("{") -> one("Lbrace")
          [] c = Ord("}") -> one("Rbrace")
          [] c = 0 -> one("Eof")
          [] OTHER ->
                IF is_letter(c)
                THEN LET r == read_ident(lx)
                     IN  [token |-> lookup_ident(r.text), lexer |-> r.lexer]
                ELSE IF is_ascii_digit(c)
                THEN LET r == read_number(lx)
                     IN  [token |-> IntTok(r.text), lexer |-> r.lexer]
                ELSE one("Illegal")

(***************************************************************************)
(* AST (ast.rs:5-21; Prefix and Infix as parser.rs:202,213 build them).    *)
(* NoneExpr and NoneStmt are Option::None.                                 *)
(***************************************************************************)
NoneExpr == [kind |-> "None"]
Identifier(t) == [kind |-> "Identifier", token |-> t]
IntegerLiteral(t, v) == [kind |-> "IntegerLiteral", token |-> t, value |-> v]
Prefix(t, right) == [kind |-> "Prefix", token |-> t, right |-> right]
Infix(left, t, right) == [kind |-> "Infix", left |-> left, token |-> t, right |-> right]

NoneStmt == [kind |-> "None"]
LetStmt(t, ident, expr) == [kind |-> "Let", token |-> t, ident |-> ident, expr |-> expr]
ReturnStmt(t, expr) == [kind |-> "Return", token |-> t, expr |-> expr]
ExpressionStmt(t, expr) == [kind |-> "Expression", token |-> t, expr |-> expr]

(***************************************************************************)
(* Rendering (ast.rs:23-58).  The arms for Prefix and Infix are those of   *)
(* the design: `(<op><operand>)` and `(<left> <op> <right>)`.              *)
(***************************************************************************)
RECURSIVE ExprDisplay(_)
ExprDisplay(e) ==
    CASE e.kind = "Identifier" -> TokenDisplay(e.token)
      [] e.kind = "IntegerLiteral" -> TokenDisplay(e.token)
      [] e.kind = "Prefix" ->
            Str(<<"(">>) \o TokenDisplay(e.token) \o ExprDisplay(e.right) \o Str(<<")">>)
      [] e.kind = "Infix" ->
            Str(<<"(">>) \o ExprDisplay(e.left) \o Str(<<" ">>) \o TokenDisplay(e.token)
                \o Str(<<" ">>) \o ExprDisplay(e.right) \o Str(<<")">>)
      [] OTHER -> <<>>

\* impl Display for Statement
StmtDisplay(st) ==
    CASE st.kind = "Let" ->
            TokenDisplay(st.token) \o Str(<<" ">>) \o TokenDisplay(st.ident)
                \o Str(<<" ", "=", " ">>) \o ExprDisplay(st.expr)
      [] st.kind = "Return" ->
            TokenDisplay(st.token)
                \o (IF st.expr = NoneExpr THEN <<>> ELSE Str(<<" ">>) \o ExprDisplay(st.expr))
      [] st.kind = "Expression" -> ExprDisplay(st.expr)

\* stmts.iter().map(|s| s.to_string()).collect::<Vec<_>>().join("")
ProgramDisplay(stmts) == Concat([i \in 1..Len(stmts) |-> StmtDisplay(stmts[i])])

(***************************************************************************)
(* str::parse::<i64> on the digit text of an Int token.  The text is one   *)
(* or more ASCII digits, so the parse fails exactly when the number is     *)
(* above i64::MAX.  The value is kept as its decimal numeral without       *)
(* leading zeros (a 64-bit value does not fit the checker's integers).     *)
(***************************************************************************)
I64Max == Str(<<"9", "2", "2", "3", "3", "7", "2", "0", "3", "6",
                "8", "5", "4", "7", "7", "5", "8", "0", "7">>)

RECURSIVE StripZeros(_)
StripZeros(ds) ==
    IF Len(ds) > 1 /\ Head(ds) = Ord("0") THEN StripZeros(Tail(ds)) ELSE ds

\* a <= b for two numerals of the same length
RECURSIVE NumeralLeq(_, _)
NumeralLeq(a, b) ==
    IF a = <<>> THEN TRUE
    ELSE IF Head(a) # Head(b) THEN Head(a) < Head(b)
    ELSE NumeralLeq(Tail(a), Tail(b))

parse_i64(text) ==
    LET ds == StripZeros(text)
    IN  [ok |-> \/ Len(ds) < Len(I64Max)
                \/ Len(ds) = Len(I64Max) /\ NumeralLeq(ds, I64Max),
         value |-> ds]

(***************************************************************************)
(* Parser (parser.rs:7-240).                                               *)
(***************************************************************************)
LOWEST == 1
EQUALS == 2
LESSGREATER == 3
SUM == 4
PRODUCT == 5
PREFIX == 6
CALL == 7

\* mutant: `/` and `*` ranked with `+` and `-`
precedence_flat(token) ==
    CASE token.type \in {"Eq", "Neq"} -> EQUALS
      [] token.type \in {"Lt", "Gt"} -> LESSGREATER
      [] token.type \in {"Plus", "Minus", "Slash", "Asterisk"} -> SUM
      [] token.type = "Lparen" -> CALL
      [] OTHER -> LOWEST

precedence(token) ==
    CASE token.type \in {"Eq", "Neq"} -> EQUALS
      [] token.type \in {"Lt", "Gt"} -> LESSGREATER
      [] token.type \in {"Plus", "Minus"} -> SUM
      [] token.type \in {"Slash", "Asterisk"} -> PRODUCT
      [] token.type = "Lparen" -> CALL
      [] OTHER -> LOWEST

is_prefix_op(token) == token.type \in {"Ident", "Int", "Bang", "Minus"}

is_infix_op(token) ==
    token.type \in {"Plus", "Minus", "Slash", "Asterisk", "Eq", "Neq", "Lt", "Gt"}

\* mutant: the peek token is not moved to the current token
Parser_next_token_unmoved(p) ==
    LET r == Lexer_next_token(p.lexer)
    IN  [p EXCEPT !.peek_token = r.token,
                  !.lexer = r.lexer]

\* Parser::next_token: peek becomes current, the lexer's next token becomes peek
Parser_next_token(p) ==
    LET r == Lexer_next_token(p.lexer)
    IN  [p EXCEPT !.cur_token = p.peek_token,
                  !.peek_token = r.token,
                  !.lexer = r.lexer]

Parser_new(lexer) ==
    Parser_next_token(Parser_next_token(
        [lexer |-> lexer, cur_token |-> NoToken, peek_token |-> NoToken,
         errors |-> <<>>]))

\* self.cur_token.take()
take_cur(p) == [p EXCEPT !.cur_token = NoToken]

\* format!("expected next token to be {:?}, got {:?} instead", expected, peek)
peek_error_msg(expected, actual) ==
    [fmt |-> "expected next token to be {:?}, got {:?} instead",
     args |-> <<expected, actual>>]

\* mutant: the message names the current token
peek_error_cur(p, expected) ==
    [p EXCEPT !.errors = Append(@, peek_error_msg(expected, p.cur_token))]

peek_error(p, expected) ==
    [p EXCEPT !.errors = Append(@, peek_error_msg(expected, p.peek_token))]

\* format!("no prefix parse function for {}", cur_token)
no_prefix_msg(token) ==
    [fmt |-> "no prefix parse function for {}", args |-> <<token>>]

\* mutant: a token without a prefix rule is passed over in silence
no_prefix_error_silent(p) == p

no_prefix_error(p) ==
    [p EXCEPT !.errors = Append(@, no_prefix_msg(p.cur_token))]

\* mutant: the `=` is looked for in the current token
peek_is_assign_cur(p) == p.cur_token = Assign

\* the conditions of parse_let_stmt, line 78 and line 87
peek_is_ident(p) == p.peek_token.type = "Ident"

peek_is_assign(p) == p.peek_token = Assign

\* mutant: the scan stops when the peek token is `;`
scan_continues_peek(p) == p.peek_token # Semicolon

\* the loop condition of the scans to `;` (lines 92 and 112)
scan_continues(p) == p.cur_token # Semicolon

\* the loop condition of parse_program (line 52)
program_continues(p) == p.cur_token # Eof

\* the loop condition of parse_expr (line 142)
expr_continues(p, prec) ==
    p.peek_token # Semicolon /\ prec < precedence(p.peek_token)

\* mutant: the right operand is parsed one tier lower (right-associative)
infix_right_prec_lower(operator) == precedence(operator) - 1

\* the precedence parse_infix_expr parses its right operand at (lines 208, 211)
infix_right_prec(operator) == precedence(operator)

\* the precedence parse_prefix_expr parses its operand at (line 200)
prefix_operand_prec == PREFIX

\* mutant: the `;` after an expression is never consumed
stmt_never_eats_semicolon(p) == FALSE

\* the condition under which parse_expr_stmt consumes a `;` (line 124)
stmt_eats_semicolon(p) == p.peek_token = Semicolon

(***************************************************************************)
(* Call stack.  A frame is the function, where it stands, and its locals.  *)
(***************************************************************************)
Frame(fn, pc, tok, ident, prec, left) ==
    [fn |-> fn, pc |-> pc, tok |-> tok, ident |-> ident, prec |-> prec, left |-> left]

Fr(fn, pc) == Frame(fn, pc, NoToken, NoToken, 0, NoneExpr)

Top == stack[Len(stack)]
Below == SubSeq(stack, 1, Len(stack) - 1)
At(fn, pc) == status = "running" /\ stack # <<>> /\ Top.fn = fn /\ Top.pc = pc

\* replace the innermost frame / call a function from it / return from it
Goto(f) == Append(Below, f)
Call(caller, callee) == Below \o <<caller, callee>>

\* an unwrap() of None, or of a failed parse: the thread panics
Panic ==
    /\ status' = "panic"
    /\ UNCHANGED <<parser, stack, ret, statements>>

\* how far past the end of the source the scans to `;` are followed
MaxOverrun == 5

CanAdvance(p) == p.lexer.read_pos < Len(p.lexer.input) + MaxOverrun

(***************************************************************************)
(* parse_program (lines 49-60)                                             *)
(***************************************************************************)
\* line 52: the loop test; line 53: the call of parse_stmt; line 59: the return
ParseProgramLoop ==
    /\ At("parse_program", "loop")
    /\ IF program_continues(parser)
       THEN /\ stack' = Call([Top EXCEPT !.pc = "after_stmt"], Fr("parse_stmt", "entry"))
            /\ status' = status
       ELSE /\ stack' = <<>>
            /\ status' = "done"
    /\ UNCHANGED <<parser, ret, statements, l, toks, todo, results>>

\* lines 53-56: push the statement if there is one, then next_token
ParseProgramAfterStmt ==
    /\ At("parse_program", "after_stmt")
    /\ statements' = IF ret # NoneStmt THEN Append(statements, ret) ELSE statements
    /\ parser' = Parser_next_token(parser)
    /\ stack' = Goto([Top EXCEPT !.pc = "loop"])
    /\ UNCHANGED <<ret, status, l, toks, todo, results>>

\* parse_stmt (lines 67-73): dispatch on the current token
ParseStmt ==
    /\ At("parse_stmt", "entry")
    /\ stack' = Goto(CASE parser.cur_token = Tok("Let") -> Fr("parse_let_stmt", "entry")
                       [] parser.cur_token = Tok("Return") -> Fr("parse_return_stmt", "entry")
                       [] OTHER -> Fr("parse_expr_stmt", "entry"))
    /\ UNCHANGED <<parser, ret, statements, status, l, toks, todo, results>>

(***************************************************************************)
(* parse_let_stmt (lines 75-97)                                            *)
(***************************************************************************)
\* lines 76-90: the two checks, up to the scan loop
ParseLetStmt ==
    /\ At("parse_let_stmt", "entry")
    /\ UNCHANGED <<l, toks, todo, results>>
    /\ IF parser.cur_token = NoToken \/ parser.peek_token = NoToken
       THEN Panic
       ELSE LET let_token == parser.cur_token
                p1 == take_cur(parser)
                p2 == Parser_next_token(p1)
                ident_token == p2.cur_token
                p3 == take_cur(p2)
            IN  /\ UNCHANGED <<statements, status>>
                /\ IF ~peek_is_ident(p1)
                   THEN /\ parser' = peek_error(p1, IdentTok(Str(<<"i", "d", "e", "n", "t", "i", "f", "i", "e", "r">>)))
                        /\ stack' = Below
                        /\ ret' = NoneStmt
                   ELSE IF ~peek_is_assign(p3)
                   THEN /\ parser' = peek_error(p3, Assign)
                        /\ stack' = Below
                        /\ ret' = NoneStmt
                   ELSE /\ parser' = p3
                        /\ stack' = Goto(Frame("parse_let_stmt", "scan", let_token,
                                               ident_token, 0, NoneExpr))
                        /\ ret' = ret

\* lines 92-96: advance until the current token is `;`, then return the Let
ParseLetScan ==
    /\ At("parse_let_stmt", "scan")
    /\ IF scan_continues(parser)
       THEN /\ CanAdvance(parser)
            /\ parser' = Parser_next_token(parser)
            /\ UNCHANGED <<stack, ret>>
       ELSE /\ stack' = Below
            /\ ret' = LetStmt(Top.tok, Top.ident, NoneExpr)
            /\ parser' = parser
    /\ UNCHANGED <<statements, status, l, toks, todo, results>>

(***************************************************************************)
(* parse_return_stmt (lines 108-117)                                       *)
(***************************************************************************)
\* lines 109-110
ParseReturnStmt ==
    /\ At("parse_return_stmt", "entry")
    /\ UNCHANGED <<l, toks, todo, results>>
    /\ IF parser.cur_token = NoToken
       THEN Panic
       ELSE /\ parser' = Parser_next_token(take_cur(parser))
            /\ stack' = Goto(Frame("parse_return_stmt", "scan", parser.cur_token,
                                   NoToken, 0, NoneExpr))
            /\ UNCHANGED <<ret, statements, status>>

\* lines 112-116
ParseReturnScan ==
    /\ At("parse_return_stmt", "scan")
    /\ IF scan_continues(parser)
       THEN /\ CanAdvance(parser)
            /\ parser' = Parser_next_token(parser)
            /\ UNCHANGED <<stack, ret>>
       ELSE /\ stack' = Below
            /\ ret' = ReturnStmt(Top.tok, NoneExpr)
            /\ parser' = parser
    /\ UNCHANGED <<statements, status, l, toks, todo, results>>

(***************************************************************************)
(* parse_expr_stmt (lines 119-129)                                         *)
(***************************************************************************)
\* lines 120-122: keep the leading token, call parse_expr(LOWEST)
ParseExprStmt ==
    /\ At("parse_expr_stmt", "entry")
    /\ UNCHANGED <<l, toks, todo, results>>
    /\ IF parser.cur_token = NoToken
       THEN Panic
       ELSE /\ stack' = Call(Frame("parse_expr_stmt", "after", parser.cur_token,
                                   NoToken, 0, NoneExpr),
                             Frame("parse_expr", "entry", NoToken, NoToken, LOWEST, NoneExpr))
            /\ UNCHANGED <<parser, ret, statements, status>>

\* lines 124-128: the optional `;`, and the Expression statement
ParseExprStmtAfter ==
    /\ At("parse_expr_stmt", "after")
    /\ parser' = IF stmt_eats_semicolon(parser) THEN Parser_next_token(parser) ELSE parser
    /\ stack' = Below
    /\ ret' = ExpressionStmt(Top.tok, ret)
    /\ UNCHANGED <<statements, status, l, toks, todo, results>>

(***************************************************************************)
(* parse_expr (lines 131-153), with parse_prefix (172-179), parse_infix    *)
(* (181-193), parse_identifier (155-159), parse_integer_literal (161-170)  *)
(***************************************************************************)
parse_identifier(p) == Identifier(p.cur_token)

\* lines 132-140: the prefix rule of the current token
ParseExpr ==
    /\ At("parse_expr", "entry")
    /\ UNCHANGED <<l, toks, todo, results>>
    /\ IF parser.cur_token = NoToken
       THEN Panic
       ELSE IF ~is_prefix_op(parser.cur_token)
       THEN /\ parser' = no_prefix_error(parser)
            /\ stack' = Below
            /\ ret' = NoneExpr
            /\ UNCHANGED <<statements, status>>
       ELSE IF parser.cur_token.type = "Ident"
       THEN /\ stack' = Goto([Top EXCEPT !.pc = "loop", !.left = parse_identifier(parser)])
            /\ UNCHANGED <<parser, ret, statements, status>>
       ELSE IF parser.cur_token.type = "Int"
       THEN LET lit == parse_i64(parser.cur_token.lit)
            IN  IF ~lit.ok
                THEN Panic
                ELSE /\ stack' = Goto([Top EXCEPT !.pc = "loop",
                                         !.left = IntegerLiteral(parser.cur_token, lit.value)])
                     /\ UNCHANGED <<parser, ret, statements, status>>
       ELSE /\ stack' = Call([Top EXCEPT !.pc = "returned"], Fr("parse_prefix_expr", "entry"))
            /\ UNCHANGED <<parser, ret, statements, status>>

\* lines 142-152: the loop over infix operators; `left` is what parse_prefix or
\* parse_infix has just returned, or the operand built at entry
ParseExprLoop ==
    /\ status = "running" /\ stack # <<>>
    /\ Top.fn = "parse_expr" /\ Top.pc \in {"loop", "returned"}
    /\ UNCHANGED <<l, toks, todo, results>>
    /\ LET left == IF Top.pc = "returned" THEN ret ELSE Top.left
       IN  IF parser.peek_token = NoToken
           THEN Panic
           ELSE IF expr_continues(parser, Top.prec) /\ is_infix_op(parser.peek_token)
           THEN /\ parser' = Parser_next_token(parser)
                /\ stack' = Call([Top EXCEPT !.pc = "returned", !.left = NoneExpr],
                                 Frame("parse_infix_expr", "entry", NoToken, NoToken, 0, left))
                /\ UNCHANGED <<ret, statements, status>>
           ELSE /\ stack' = Below
                /\ ret' = left
                /\ UNCHANGED <<parser, statements, status>>

(***************************************************************************)
(* parse_prefix_expr (lines 195-203)                                       *)
(***************************************************************************)
ParsePrefixExpr ==
    /\ At("parse_prefix_expr", "entry")
    /\ parser' = Parser_next_token(take_cur(parser))
    /\ stack' = Call(Frame("parse_prefix_expr", "after", parser.cur_token, NoToken, 0, NoneExpr),
                     Frame("parse_expr", "entry", NoToken, NoToken, prefix_operand_prec, NoneExpr))
    /\ UNCHANGED <<ret, statements, status, l, toks, todo, results>>

\* line 202: token.unwrap()
ParsePrefixExprAfter ==
    /\ At("parse_prefix_expr", "after")
    /\ UNCHANGED <<l, toks, todo, results>>
    /\ IF Top.tok = NoToken
       THEN Panic
       ELSE /\ stack' = Below
            /\ ret' = Prefix(Top.tok, ret)
            /\ UNCHANGED <<parser, statements, status>>

(***************************************************************************)
(* parse_infix_expr (lines 206-214)                                        *)
(***************************************************************************)
\* lines 207-211: precedence(&operator) unwraps the operator
ParseInfixExpr ==
    /\ At("parse_infix_expr", "entry")
    /\ UNCHANGED <<l, toks, todo, results>>
    /\ IF parser.cur_token = NoToken
       THEN Panic
       ELSE /\ parser' = Parser_next_token(take_cur(parser))
            /\ stack' = Call([Top EXCEPT !.pc = "after", !.tok = parser.cur_token],
                             Frame("parse_expr", "entry", NoToken, NoToken,
                                   infix_right_prec(parser.cur_token), NoneExpr))
            /\ UNCHANGED <<ret, statements, status>>

ParseInfixExprAfter ==
    /\ At("parse_infix_expr", "after")
    /\ stack' = Below
    /\ ret' = Infix(Top.left, Top.tok, ret)
    /\ UNCHANGED <<parser, statements, status, l, toks, todo, results>>

(***************************************************************************)
(* create_program (parser.rs:494-509) and the loops of the tests over      *)
(* their inputs (e.g. lines 473-479): one Lexer and one Parser per source. *)
(***************************************************************************)
ProgramFrame == Fr("parse_program", "loop")

\* when parse_program has returned, the next source gets a fresh parser
NextCase ==
    /\ status = "done"
    /\ todo # <<>>
    /\ results' = Append(results, [input |-> parser.lexer.input,
                                   program |-> statements,
                                   errors |-> parser.errors])
    /\ parser' = Parser_new(Lexer_new(Head(todo)))
    /\ todo' = Tail(todo)
    /\ stack' = <<ProgramFrame>>
    /\ statements' = <<>>
    /\ ret' = NoneStmt
    /\ status' = "running"
    /\ UNCHANGED <<l, toks>>

(***************************************************************************)
(* A client of the lexer alone (repl.rs:22-29, lexer.rs:307-312): it calls *)
(* next_token again and again.                                             *)
(***************************************************************************)
LexerCall ==
    /\ status = "idle"
    /\ l.read_pos < Len(l.input) + MaxOverrun
    /\ LET r == Lexer_next_token(l)
       IN  /\ l' = r.lexer
           /\ toks' = Append(toks, r.token)
    /\ UNCHANGED <<parser, stack, ret, statements, status, todo, results>>

(***************************************************************************)
(* Sources                                                                 *)
(***************************************************************************)
MaxOperands == 3   \* operands of a generated expression source
MaxSoup == 3       \* tokens of a generated statement-token sequence
MaxOdd == 2        \* tokens of a generated sequence with unsupported tokens
MaxStmts == 3      \* statements of a generated let or return source
MaxLen == 3        \* bytes of a generated lexer source

Space == Str(<<" ">>)
Newline == <<10>>

\* the pieces joined by single spaces
RECURSIVE Join(_)
Join(ps) ==
    IF ps = <<>> THEN <<>>
    ELSE IF Len(ps) = 1 THEN Head(ps)
    ELSE Head(ps) \o Space \o Join(Tail(ps))

Letters == <<"a", "b", "c", "d", "e", "f">>
Digits == <<"1", "2", "3", "4", "5", "6">>
\* operand i: an identifier at odd places, an integer at even ones
Operand(i) == IF i % 2 = 1 THEN Str(<<Letters[i]>>) ELSE Str(<<Digits[i]>>)

PrefixSyms == {<<"!">>, <<"-">>}
InfixSyms == {<<"+">>, <<"-">>, <<"*">>, <<"/">>, <<"<">>, <<">">>, <<"=", "=">>, <<"!", "=">>}
GapSyms == InfixSyms \cup {<<";">>}

\* operand i, with the prefix operator `pre` when it is operand `at`
Unit(i, at, pre) == (IF i = at THEN Str(pre) ELSE <<>>) \o Operand(i)

RECURSIVE ExprText(_, _, _, _, _)
ExprText(n, at, pre, gap, i) ==
    IF i > n THEN <<>>
    ELSE (IF i = 1 THEN <<>>
          ELSE IF gap[i - 1] = <<";">> THEN Str(<<";", " ">>)
          ELSE Space \o Str(gap[i - 1]) \o Space)
         \o Unit(i, at, pre) \o ExprText(n, at, pre, gap, i + 1)

\* expression statements: n operands, the first or the last of them or none
\* under a prefix operator, an infix operator or a `;` between neighbours
ExprSourcesOf(gaps) ==
    UNION { { ExprText(n, at, pre, gap, 1) :
                at \in {0, 1, n}, pre \in PrefixSyms,
                gap \in [1..(n - 1) -> gaps] } : n \in 1..MaxOperands }

ExprSources == ExprSourcesOf(InfixSyms)
ExprSeqSources == ExprSourcesOf(GapSyms) \ ExprSources

\* the inputs of the parser's own tests (parser.rs:255-258, 282-285, 310,
\* 330, 352, 381-423, 452-469)
TestSources ==
    { Str(<<"l","e","t"," ","x"," ","="," ","5",";">>) \o Newline
        \o Str(<<"l","e","t"," ","y"," ","="," ","1","0",";">>) \o Newline
        \o Str(<<"l","e","t"," ","f","o","o","b","a","r"," ","="," ","8","3","8","3","8","3",";">>),
      Str(<<"r","e","t","u","r","n"," ","5",";">>) \o Newline
        \o Str(<<"r","e","t","u","r","n"," ","1","0",";">>) \o Newline
        \o Str(<<"r","e","t","u","r","n"," ","8","3","8","3","8","3",";">>),
      Str(<<"f","o","o","b","a","r",";">>),
      Str(<<"4","2",";">>),
      Str(<<"!","5",";">>),
      Str(<<"5"," ","+"," ","5",";">>),
      Str(<<"5"," ","!","="," ","5",";">>),
      Str(<<"-","a"," ","*"," ","b">>),
      Str(<<"!","-","a">>),
      Str(<<"a"," ","+"," ","b"," ","/"," ","c">>),
      Str(<<"a"," ","+"," ","b"," ","*"," ","c"," ","+"," ","d"," ","/"," ","e"," ","-"," ","f">>),
      Str(<<"3"," ","+"," ","4",";"," ","-","5"," ","*"," ","5">>),
      Str(<<"5"," ",">"," ","4"," ","=","="," ","3"," ","<"," ","4">>),
      Str(<<"5"," ","<"," ","4"," ","!","="," ","3"," ",">"," ","4">>),
      Str(<<"3"," ","+"," ","4"," ","*"," ","5"," ","=","="," ","3"," ","*"," ","1"," ","+"," ","4"," ","*"," ","5">>) }

\* sequences of statement tokens, well formed or not
SoupWords ==
    { Str(<<"l","e","t">>), Str(<<"r","e","t","u","r","n">>), Str(<<"x">>), Str(<<"=">>),
      Str(<<"5">>), Str(<<";">>), Str(<<"-">>) }

\* tokens the parser has no rule for, among ones it has
OddWords ==
    { Str(<<"x">>), Str(<<"+">>), Str(<<"!">>), Str(<<";">>), Str(<<"(">>),
      Str(<<"{">>), Str(<<",">>), Str(<<"@">>), Str(<<"i","f">>),
      Str(<<"t","r","u","e">>) }
\* the other such tokens, each a source of its own
LoneWords ==
    { Str(<<")">>), Str(<<"}">>), Str(<<"e","l","s","e">>), Str(<<"f","n">>),
      Str(<<"f","a","l","s","e">>) }

WordSources(words, max) ==
    UNION { { Join(ws) : ws \in [1..n -> words] } : n \in 0..max }

\* `let <ident_i> = <int>;` and `return <int>;`, n times, one per line
LetIdents == { Str(<<"x">>), Str(<<"y">>), Str(<<"f","o","o","b","a","r">>) }
StmtInts == << Str(<<"5">>), Str(<<"1","0">>), Str(<<"8","3","8","3","8","3">>),
               Str(<<"0">>), Str(<<"7">>) >>

RECURSIVE Lines(_)
Lines(ps) ==
    IF ps = <<>> THEN <<>>
    ELSE IF Len(ps) = 1 THEN Head(ps)
    ELSE Head(ps) \o Newline \o Lines(Tail(ps))

LetLine(ident, i) ==
    Str(<<"l","e","t"," ">>) \o ident \o Str(<<" ","="," ">>) \o StmtInts[i] \o Str(<<";">>)
ReturnLine(i) == Str(<<"r","e","t","u","r","n"," ">>) \o StmtInts[i] \o Str(<<";">>)

LetSources ==
    UNION { { Lines([i \in 1..n |-> LetLine(ids[i], i)]) : ids \in [1..n -> LetIdents] }
            : n \in 1..MaxStmts }
ReturnSources ==
    { Lines([i \in 1..n |-> ReturnLine(i)]) : n \in 1..MaxStmts }

\* integer literals at and beyond the edge of i64
BigInts ==
    { I64Max,
      Str(<<"9","2","2","3","3","7","2","0","3","6","8","5","4","7","7","5","8","0","8">>),
      Str(<<"0">>) \o I64Max,
      Str(<<"1","0","0","0","0","0","0","0","0","0","0","0","0","0","0","0","0","0","0","0">>) }
BigIntSources ==
    UNION { { n \o Str(<<";">>),
              Str(<<"-">>) \o n,
              Str(<<"x"," ","+"," ">>) \o n,
              Str(<<"l","e","t"," ","x"," ","="," ">>) \o n \o Str(<<";">>),
              Str(<<"r","e","t","u","r","n"," ">>) \o n \o Str(<<";">>) } : n \in BigInts }

\* what one run of the tests' loop parses: a source alone, or an expression
\* source and then the same source with a `;` after it
Batches ==
    { <<s>> : s \in ExprSeqSources \cup TestSources \cup WordSources(SoupWords, MaxSoup)
                    \cup WordSources(OddWords, MaxOdd) \cup LoneWords
                    \cup LetSources
                    \cup ReturnSources \cup BigIntSources }
    \cup { <<e, e \o Str(<<";">>)>> : e \in ExprSources }

\* lexer sources: every byte string up to MaxLen over bytes of every class,
\* and every ASCII byte alone and before a letter
LexBytes ==
    { 0, 9, 11, 12, 32, Ord("!"), Ord("="), Ord("+"), Ord(";"),
      Ord("a"), Ord("0"), Ord("@") }
LexSources ==
    UNION { [1..n -> LexBytes] : n \in 0..MaxLen }
    \cup { <<b>> : b \in 0..127 } \cup { <<b, Ord("z")>> : b \in 0..127 }

(***************************************************************************)
(* Specifications                                                          *)
(***************************************************************************)
\* the parser under the tests' loop
Init ==
    /\ \E b \in Batches :
          /\ parser = Parser_new(Lexer_new(Head(b)))
          /\ todo = Tail(b)
    /\ stack = <<ProgramFrame>>
    /\ ret = NoneStmt
    /\ statements = <<>>
    /\ status = "running"
    /\ results = <<>>
    /\ l = Lexer_new(<<>>)
    /\ toks = <<>>

Next ==
    \/ ParseProgramLoop
    \/ ParseProgramAfterStmt
    \/ ParseStmt
    \/ ParseLetStmt
    \/ ParseLetScan
    \/ ParseReturnStmt
    \/ ParseReturnScan
    \/ ParseExprStmt
    \/ ParseExprStmtAfter
    \/ ParseExpr
    \/ ParseExprLoop
    \/ ParsePrefixExpr
    \/ ParsePrefixExprAfter
    \/ ParseInfixExpr
    \/ ParseInfixExprAfter
    \/ NextCase

Spec == Init /\ [][Next]_vars

\* the lexer alone
LexInit ==
    /\ \E src \in LexSources : l = Lexer_new(src)
    /\ toks = <<>>
    /\ parser = Parser_new(Lexer_new(<<>>))
    /\ stack = <<>>
    /\ ret = NoneStmt
    /\ statements = <<>>
    /\ status = "idle"
    /\ todo = <<>>
    /\ results = <<>>

LexNext == LexerCall

LexSpec == LexInit /\ [][LexNext]_vars

(***************************************************************************)
(* Properties                                                              *)
(***************************************************************************)
\* the tokens of a source up to its first Eof
RECURSIVE LexAll(_)
LexAll(lx) ==
    LET r == Lexer_next_token(lx)
    IN  IF r.token = Eof THEN <<>> ELSE <<r.token>> \o LexAll(r.lexer)

Tokens(input) == LexAll(Lexer_new(input))

\* a scan to `;` of parse_let_stmt or parse_return_stmt is at its loop test
InScan == status = "running" /\ stack # <<>> /\ Top.pc = "scan"

\* C1: parse_program terminates on every source: a scan to `;` that has
\* reached Eof stops there (Eof is a forced stop), so the scan ends and
\* parse_program returns.
C1_ScanStopsAtEof ==
    [][(InScan /\ parser.cur_token = Eof) => ~InScan']_vars

\* C2: parse_program never raises a fatal error: no step of parsing panics,
\* whatever tokens the lexer produces.
C2_NeverPanics == status # "panic"

\* C3: the token sequence of a lexer ends in a permanent Eof: for a source of
\* n bytes an Eof is among the first n + 1 tokens, and after an Eof every
\* later token is Eof.
C3_EofPermanent ==
    /\ Len(toks) >= Len(l.input) + 1
          => \E i \in 1..(Len(l.input) + 1) : toks[i] = Eof
    /\ \A i, j \in 1..Len(toks) : (i < j /\ toks[i] = Eof) => toks[j] = Eof

\* the tokens of a source without the `;` that may end it
Body(ts) ==
    IF ts # <<>> /\ ts[Len(ts)] = Semicolon THEN SubSeq(ts, 1, Len(ts) - 1) ELSE ts

InfixTypes == {"Plus", "Minus", "Asterisk", "Slash", "Lt", "Gt", "Eq", "Neq"}
IsOperandTok(t) == t.type \in {"Ident", "Int"}
IsInfixTok(t) == t.type \in InfixTypes
IsPrefixTok(t) == t.type \in {"Bang", "Minus"}

\* the precedence tiers as the design lists them, lowest first
Tiers == << {"Eq", "Neq"}, {"Lt", "Gt"}, {"Plus", "Minus"}, {"Asterisk", "Slash"} >>
Tier(t) == CHOOSE k \in 1..Len(Tiers) : t.type \in Tiers[k]

\* the node an operand token stands for
OperandExpr(t) ==
    IF t.type = "Ident" THEN Identifier(t) ELSE IntegerLiteral(t, StripZeros(t.lit))

\* ts is `a op1 b op2 c` with op1 and op2 of one tier
IsChain(ts) ==
    /\ Len(ts) = 5
    /\ IsOperandTok(ts[1]) /\ IsOperandTok(ts[3]) /\ IsOperandTok(ts[5])
    /\ IsInfixTok(ts[2]) /\ IsInfixTok(ts[4])
    /\ Tier(ts[2]) = Tier(ts[4])

\* C4: infix operators of one tier are left-associative: `a op1 b op2 c`
\* parses to the single statement Infix(Infix(a, op1, b), op2, c), which
\* renders as `((a op1 b) op2 c)`, and nothing is diagnosed.
C4_LeftAssociative ==
    status = "done" =>
        LET ts == Body(Tokens(parser.lexer.input))
        IN  IsChain(ts) =>
              /\ statements =
                    << ExpressionStmt(ts[1],
                          Infix(Infix(OperandExpr(ts[1]), ts[2], OperandExpr(ts[3])),
                                ts[4], OperandExpr(ts[5]))) >>
              /\ parser.errors = <<>>
              /\ ProgramDisplay(statements) =
                    Str(<<"(", "(">>) \o TokenDisplay(ts[1]) \o Space \o TokenDisplay(ts[2])
                        \o Space \o TokenDisplay(ts[3]) \o Str(<<")", " ">>)
                        \o TokenDisplay(ts[4]) \o Space \o TokenDisplay(ts[5]) \o Str(<<")">>)

\* `a op1 b op2 c` with two different operators of one tier has been parsed
C4_Witness ==
    /\ status = "done"
    /\ IsChain(Body(Tokens(parser.lexer.input)))
    /\ Len(statements) = 1
    /\ statements[1].expr.kind = "Infix"
    /\ statements[1].expr.left.kind = "Infix"
    /\ statements[1].expr.token # statements[1].expr.left.token

\* ts is an expression: operands, each under any number of prefix
\* operators, with one infix operator between neighbours
RECURSIVE IsExprFrom(_, _, _)
IsExprFrom(ts, i, wantOperand) ==
    IF i > Len(ts) THEN ~wantOperand
    ELSE IF wantOperand
    THEN \/ IsOperandTok(ts[i]) /\ IsExprFrom(ts, i + 1, FALSE)
         \/ IsPrefixTok(ts[i]) /\ IsExprFrom(ts, i + 1, TRUE)
    ELSE IsInfixTok(ts[i]) /\ IsExprFrom(ts, i + 1, TRUE)

IsExpr(ts) == ts # <<>> /\ IsExprFrom(ts, 1, TRUE)

\* the tokens of a tree, left to right
RECURSIVE Yield(_)
Yield(e) ==
    CASE e.kind \in {"Identifier", "IntegerLiteral"} -> <<e.token>>
      [] e.kind = "Prefix" -> <<e.token>> \o Yield(e.right)
      [] e.kind = "Infix" -> Yield(e.left) \o <<e.token>> \o Yield(e.right)
      [] OTHER -> <<>>

\* the tree follows the tiers: under an infix operator, an infix left child
\* is of the same or a higher tier, an infix right child of a higher tier;
\* a prefix operator holds an operand or another prefix operator, never an
\* infix expression; no operand is missing
RECURSIVE FollowsTiers(_)
FollowsTiers(e) ==
    CASE e.kind = "Identifier" -> e.token.type = "Ident"
      [] e.kind = "IntegerLiteral" ->
            e.token.type = "Int" /\ e.value = StripZeros(e.token.lit)
      [] e.kind = "Prefix" ->
            /\ IsPrefixTok(e.token)
            /\ e.right.kind \in {"Identifier", "IntegerLiteral", "Prefix"}
            /\ FollowsTiers(e.right)
      [] e.kind = "Infix" ->
            /\ IsInfixTok(e.token)
            /\ e.left.kind = "Infix" => Tier(e.left.token) >= Tier(e.token)
            /\ e.right.kind = "Infix" => Tier(e.right.token) > Tier(e.token)
            /\ FollowsTiers(e.left)
            /\ FollowsTiers(e.right)
      [] OTHER -> FALSE

Renders(src, text) ==
    parser.lexer.input = Str(src) => ProgramDisplay(statements) = Str(text)

\* C5: the tree of an expression follows the precedence tiers: a source that
\* is an expression over identifiers, integers, prefix `!`/`-` and the eight
\* infix operators parses, without diagnostics, to one Expression statement
\* whose tree has the source's tokens as its leaves and operators in source
\* order and follows the tiers (a higher-tier infix operator below an
\* adjacent lower-tier one on either side, a prefix operator holding only the
\* operand after it).
C5_PrecedenceTiers ==
    status = "done" =>
        LET ts == Body(Tokens(parser.lexer.input))
        IN  IsExpr(ts) =>
              /\ Len(statements) = 1
              /\ statements[1].kind = "Expression"
              /\ statements[1].token = ts[1]
              /\ Yield(statements[1].expr) = ts
              /\ FollowsTiers(statements[1].expr)
              /\ parser.errors = <<>>
              /\ Renders(<<"a", " ", "+", " ", "b", " ", "*", " ", "c">>,
                         <<"(", "a", " ", "+", " ", "(", "b", " ", "*", " ", "c", ")", ")">>)
              /\ Renders(<<"a", " ", "*", " ", "b", " ", "+", " ", "c">>,
                         <<"(", "(", "a", " ", "*", " ", "b", ")", " ", "+", " ", "c", ")">>)
              /\ Renders(<<"-", "a", " ", "*", " ", "b">>,
                         <<"(", "(", "-", "a", ")", " ", "*", " ", "b", ")">>)

\* an expression with a prefix operator and infix operators of two tiers,
\* the higher one first, has been parsed
C5_Witness ==
    /\ status = "done"
    /\ Len(statements) = 1
    /\ IsExpr(Body(Tokens(parser.lexer.input)))
    /\ statements[1].expr.kind = "Infix"
    /\ statements[1].expr.left.kind = "Infix"
    /\ Tier(statements[1].expr.left.token) > Tier(statements[1].expr.token)
    /\ statements[1].expr.left.left.kind = "Prefix"

\* the byte classes as the design lists them
ClaimedWhitespace == {32, 9, 13, 10}
ListedPunctuation ==
    { Ord(c) : c \in {"=", "!", "+", "-", "/", "*", "<", ">", ";", "(", ")", ",", "{", "}"} }
IsOtherByte(b) ==
    /\ b \notin ClaimedWhitespace
    /\ b \notin ListedPunctuation
    /\ b \notin (65..90) \cup (97..122) \cup {95}
    /\ b \notin 48..57

\* C9: byte classification by next_token is total and exact: a space, tab,
\* CR or LF under the cursor is skipped; a byte under the cursor that is not
\* one of those four, not listed punctuation, not a letter or underscore and
\* not a digit yields exactly one Illegal token and consumes exactly that
\* byte, so that the following byte is the next one classified.
C9_ByteClassification ==
    [][ (status = "idle" /\ l.pos < Len(l.input)) =>
          /\ IsOtherByte(l.ch) =>
                /\ toks' = Append(toks, Tok("Illegal"))
                /\ l' = read_char(l)
          /\ l.ch \in ClaimedWhitespace =>
                /\ toks' = Append(toks, Lexer_next_token(read_char(l)).token)
                /\ l' = Lexer_next_token(read_char(l)).lexer
      ]_vars

\* ts is made of n >= 1 groups, each matching `shape` token by token
IsGroups(ts, width, Matches(_, _)) ==
    /\ ts # <<>>
    /\ Len(ts) % width = 0
    /\ \A i \in 1..Len(ts) : Matches(((i - 1) % width) + 1, ts[i])

LetShape(k, t) ==
    CASE k = 1 -> t = Tok("Let")
      [] k = 2 -> t.type = "Ident"
      [] k = 3 -> t = Assign
      [] k = 4 -> t.type = "Int"
      [] k = 5 -> t = Semicolon

\* ts is `let <ident> = <int>;`, one or more times
IsLets(ts) == IsGroups(ts, 5, LetShape)

\* C6: n well-formed statements `let <ident_i> = <int>;` parse to exactly n
\* Let statements with keyword token `let` and identifier tokens ident_1 ..
\* ident_n in source order, and the error list is empty.
C6_LetStatements ==
    status = "done" =>
        LET ts == Tokens(parser.lexer.input)
        IN  IsLets(ts) =>
              /\ Len(statements) * 5 = Len(ts)
              /\ \A i \in 1..Len(statements) :
                    /\ statements[i].kind = "Let"
                    /\ statements[i].token = Tok("Let")
                    /\ statements[i].ident = ts[5 * (i - 1) + 2]
              /\ parser.errors = <<>>

\* several let statements with different identifiers have been parsed
C6_Witness ==
    /\ status = "done"
    /\ IsLets(Tokens(parser.lexer.input))
    /\ Len(statements) >= 2
    /\ statements[1].kind = "Let" /\ statements[2].kind = "Let"
    /\ statements[1].ident # statements[2].ident

ExpectedMsg(expected, actual) ==
    [fmt |-> "expected next token to be {:?}, got {:?} instead",
     args |-> <<expected, actual>>]

\* the step reports `msg`, returns no statement to parse_program and
\* leaves the statements as they were
DropsWith(msg) ==
    /\ parser'.errors = Append(parser.errors, msg)
    /\ ret' = NoneStmt
    /\ statements' = statements
    /\ status' = "running"
    /\ stack' = <<[ProgramFrame EXCEPT !.pc = "after_stmt"]>>

RECURSIVE Split(_)
Split(ts) ==
    IF \A i \in 1..Len(ts) : ts[i] # Semicolon THEN <<ts>>
    ELSE LET k == CHOOSE i \in 1..Len(ts) :
                      ts[i] = Semicolon /\ \A j \in 1..(i - 1) : ts[j] # Semicolon
         IN  <<SubSeq(ts, 1, k - 1)>> \o Split(SubSeq(ts, k + 1, Len(ts)))

\* C8: the `;` after an expression statement is optional: an expression
\* source E and the source `E;` give the same Program (one Expression
\* statement) and the same error list; and in `E1; E2` (more generally
\* `E1; ...; En`) the expressions become consecutive Expression statements
\* in source order.
C8_SemicolonOptional ==
    status = "done" =>
        /\ ( /\ Len(results) = 1
             /\ parser.lexer.input = results[1].input \o Str(<<";">>)
             /\ IsExpr(Tokens(results[1].input)) )
              => /\ statements = results[1].program
                 /\ parser.errors = results[1].errors
                 /\ Len(statements) = 1
                 /\ statements[1].kind = "Expression"
        /\ LET segs == Split(Body(Tokens(parser.lexer.input)))
           IN  (Len(segs) >= 2 /\ \A k \in 1..Len(segs) : IsExpr(segs[k]))
                 => /\ Len(statements) = Len(segs)
                    /\ \A k \in 1..Len(segs) :
                          /\ statements[k].kind = "Expression"
                          /\ statements[k].token = segs[k][1]
                          /\ Yield(statements[k].expr) = segs[k]
                          /\ FollowsTiers(statements[k].expr)
                    /\ parser.errors = <<>>

\* `E;` has been parsed after E, E an expression with an infix operator
C8_Witness ==
    /\ status = "done"
    /\ Len(results) = 1
    /\ parser.lexer.input = results[1].input \o Str(<<";">>)
    /\ IsExpr(Tokens(results[1].input))
    /\ Len(statements) = 1
    /\ statements[1].expr.kind = "Infix"

ReturnShape(k, t) ==
    CASE k = 1 -> t = Tok("Return")
      [] k = 2 -> t.type = "Int"
      [] k = 3 -> t = Semicolon

\* ts is `return <int>;`, one or more times
IsReturns(ts) == IsGroups(ts, 3, ReturnShape)

\* the tokens the parser has not made current yet
Remaining(p) ==
    IF p.peek_token = Eof THEN <<>> ELSE <<p.peek_token>> \o LexAll(p.lexer)

\* C10: n statements `return <int>;` parse to exactly n Return statements,
\* each with the `return` keyword token and an empty expression slot, and
\* the error list is empty; parse_return_stmt consumes the tokens up to and
\* including the first `;` after `return` and nothing beyond it.
C10_ReturnStatements ==
    LET ts == Tokens(parser.lexer.input)
    IN  /\ (status = "done" /\ IsReturns(ts)) =>
              /\ Len(statements) * 3 = Len(ts)
              /\ \A i \in 1..Len(statements) :
                    statements[i] = ReturnStmt(Tok("Return"), NoneExpr)
              /\ parser.errors = <<>>
        /\ (At("parse_program", "after_stmt") /\ ret.kind = "Return" /\ IsReturns(ts)) =>
              /\ parser.cur_token = Semicolon
              /\ Remaining(parser) = SubSeq(ts, 3 * (Len(statements) + 1) + 1, Len(ts))

\* several return statements have been parsed
C10_Witness ==
    /\ status = "done"
    /\ IsReturns(Tokens(parser.lexer.input))
    /\ Len(statements) >= 2
    /\ statements[2].kind = "Return"

\* xs is the beginning of ys
IsPrefixOf(xs, ys) == Len(xs) <= Len(ys) /\ SubSeq(ys, 1, Len(xs)) = xs

\* the three places where an error is reported: parse_let_stmt is entered
\* and (a) the token after `let` is not an Identifier, or (b) it is and the
\* token after it is not `=`; (c) parse_expr is entered and the current
\* token has no prefix rule
LetWithoutIdent ==
    At("parse_let_stmt", "entry") /\ parser.peek_token.type # "Ident"

LetWithoutAssign ==
    /\ At("parse_let_stmt", "entry")
    /\ parser.peek_token.type = "Ident"
    /\ Lexer_next_token(parser.lexer).token # Assign

ExprWithoutPrefixRule ==
    At("parse_expr", "entry") /\ ~is_prefix_op(parser.cur_token)

\* parse_expr is at its loop test and the peek token has no infix rule
PeekWithoutInfixRule ==
    /\ status = "running" /\ stack # <<>>
    /\ Top.fn = "parse_expr" /\ Top.pc \in {"loop", "returned"}
    /\ ~is_infix_op(parser.peek_token)

\* C11: the error list is append-only and grows only at the three trigger
\* points: over a run of parse_program every step leaves the list as it was
\* or appends one entry to it; it appends exactly when (a) the token after
\* `let` is not an Identifier, (b) the token after the let identifier is not
\* `=`, or (c) parse_expr is entered with a current token that has no prefix
\* rule, and then the entry is the one "no prefix parse function for
\* <token>"; a peek token without an infix rule ends the expression (the
\* frame of parse_expr returns) without appending anything.
C11_ErrorsAppendOnly ==
    [][ status = "running" =>
          /\ IsPrefixOf(parser.errors, parser'.errors)
          /\ Len(parser'.errors) <= Len(parser.errors) + 1
          /\ (parser'.errors # parser.errors) <=>
                (LetWithoutIdent \/ LetWithoutAssign \/ ExprWithoutPrefixRule)
          /\ ExprWithoutPrefixRule =>
                parser'.errors = Append(parser.errors, no_prefix_msg(parser.cur_token))
          /\ PeekWithoutInfixRule =>
                /\ parser'.errors = parser.errors
                /\ stack' = Below
                /\ status' = "running"
      ]_vars

\* a run has ended with an entry from parse_let_stmt and one from
\* parse_expr in its error list, after an expression that a peek token
\* without an infix rule has ended
C11_Witness ==
    /\ status = "done"
    /\ \E i, j \in 1..Len(parser.errors) :
          /\ parser.errors[i].fmt = "expected next token to be {:?}, got {:?} instead"
          /\ parser.errors[j].fmt = "no prefix parse function for {}"
    /\ \E k \in 1..Len(statements) :
          statements[k].kind = "Expression" /\ statements[k].expr # NoneExpr

\* read_pos is one past pos, and ch is the byte at pos, or 0 from the end on
\* (input[i] of the code is input[i + 1] here)
CursorOK(lx) ==
    /\ lx.read_pos = lx.pos + 1
    /\ lx.ch = IF lx.pos < Len(lx.input) THEN lx.input[lx.pos + 1] ELSE 0

\* the lexers from lx to target, one call of read_char after the other
RECURSIVE Advances(_, _)
Advances(lx, target) ==
    IF lx = target \/ lx.read_pos >= target.read_pos THEN <<lx>>
    ELSE <<lx>> \o Advances(read_char(lx), target)

\* C12: the cursor invariant of the lexer: after Lexer::new and after every
\* call of read_char, those inside next_token included (so after every
\* next_token too), read_pos = pos + 1 and ch is input[pos] when pos is
\* inside the input and 0 when it is at or beyond its end; pos never
\* decreases.
C12_CursorInvariant ==
    /\ CursorOK(l)
    /\ [][ LET path == Advances(l, l')
           IN  /\ path[Len(path)] = l'
               /\ \A i \in 1..Len(path) : CursorOK(path[i])
               /\ \A i \in 2..Len(path) : path[i].pos >= path[i - 1].pos
       ]_vars

\* next_token has been called on a source of several tokens until the
\* cursor has gone beyond the end of the input
C12_Witness ==
    /\ status = "idle"
    /\ Len(toks) >= 3
    /\ toks[1] # Eof /\ toks[2] # Eof
    /\ l.pos > Len(l.input)
    /\ l.ch = 0

\* the byte after the current one, 0 when there is none
ByteAfter(lx) ==
    IF lx.pos + 1 < Len(lx.input) THEN lx.input[lx.pos + 2] ELSE 0

\* the call of next_token returns the token `type` and consumes n bytes
\* after the whitespace it has skipped
Gives(type, n) ==
    /\ toks' = Append(toks, Tok(type))
    /\ l'.pos = skip_whitespace(l).pos + n
    /\ l'.input = l.input

\* C13: two-character operators are decided by a non-destructive one-byte
\* peek: with `=` (resp. `!`) as the current byte and `=` as the next one,
\* next_token returns the single token Eq (resp. Neq) and consumes both
\* bytes; otherwise it returns Assign (resp. Bang) and consumes exactly one
\* byte, and the byte after it is the current byte of the next call, which
\* classifies it: `=+` gives Assign then Plus, `===` gives Eq then Assign.
\* The peek itself leaves pos, read_pos and ch as they are: the byte it
\* returns is the one after the current byte, and the cursor after the
\* call is where consuming one or two bytes puts it.
C13_TwoCharOperators ==
    [][ LET lx == skip_whitespace(l)
            two == ByteAfter(lx) = Ord("=")
        IN  /\ lx.ch \in {Ord("="), Ord("!")} =>
                  /\ peek_char(lx) = ByteAfter(lx)
                  /\ l' = IF two THEN read_char(read_char(lx)) ELSE read_char(lx)
                  /\ ~two => l'.ch = ByteAfter(lx)
            /\ (lx.ch = Ord("=") /\ two) => Gives("Eq", 2)
            /\ (lx.ch = Ord("=") /\ ~two) => Gives("Assign", 1)
            /\ (lx.ch = Ord("!") /\ two) => Gives("Neq", 2)
            /\ (lx.ch = Ord("!") /\ ~two) => Gives("Bang", 1)
            /\ (l.input = Str(<<"=", "+">>) /\ Len(toks') = 2) =>
                  toks' = <<Assign, Tok("Plus")>>
            /\ (l.input = Str(<<"=", "=", "=">>) /\ Len(toks') = 2) =>
                  toks' = <<Tok("Eq"), Assign>>
      ]_vars

\* `===` has been lexed to Eq and Assign
C13_Witness ==
    /\ status = "idle"
    /\ l.input = Str(<<"=", "=", "=">>)
    /\ toks = <<Tok("Eq"), Assign>>

\* both tokens of the lookahead window are Some
WindowFull(p) == p.cur_token # NoToken /\ p.peek_token # NoToken

\* the places where the window is read: the loop test of parse_program
\* (first reached right after Parser::new), the entries of parse_stmt,
\* parse_expr_stmt and parse_expr, and the loop test of parse_expr, which
\* evaluates precedence(peek_token)
WindowRead ==
    \/ At("parse_program", "loop")
    \/ At("parse_stmt", "entry")
    \/ At("parse_expr_stmt", "entry")
    \/ At("parse_expr", "entry")
    \/ At("parse_expr", "loop")
    \/ At("parse_expr", "returned")

\* the i-th token the lexer returns for the source, Eof from the first Eof on
TokenAt(input, i) ==
    LET ts == Tokens(input)
    IN  IF i <= Len(ts) THEN ts[i] ELSE Eof

\* parse_program is at its loop test and nothing has been parsed or
\* reported yet: the parser is as Parser::new has returned it
Fresh ==
    At("parse_program", "loop") /\ statements = <<>> /\ parser.errors = <<>>

\* the window moves on by one token: the peek token becomes the current
\* one (and may be taken at once), the lexer's next token the peek token
Shifted(p, q) ==
    LET r == Lexer_next_token(p.lexer)
    IN  /\ q.lexer = r.lexer
        /\ q.peek_token = r.token
        /\ q.cur_token \in {p.peek_token, NoToken}

\* the window stays on its tokens; the current one may be taken
Kept(p, q) ==
    /\ q.lexer = p.lexer
    /\ q.peek_token = p.peek_token
    /\ q.cur_token \in {p.cur_token, NoToken}

\* C14: the two-token lookahead window is populated wherever it is read:
\* after Parser::new, at every entry to parse_stmt, parse_expr_stmt and
\* parse_expr and at every evaluation of precedence(peek_token), cur_token
\* and peek_token are both present, although parse_let_stmt,
\* parse_return_stmt, parse_prefix_expr and parse_infix_expr empty cur_token
\* with take(); and the successive values of cur_token are the lexer's
\* tokens in order, none skipped or repeated before the first Eof: the
\* window starts on the first two tokens of the source, and every step of
\* a run leaves it on its tokens or moves it on by exactly one token, the
\* peek token becoming the current one.
C14_LookaheadWindow ==
    [][ /\ WindowRead => WindowFull(parser)
        /\ WindowRead' => WindowFull(parser')
        /\ Fresh =>
              /\ parser.cur_token = TokenAt(parser.lexer.input, 1)
              /\ parser.peek_token = TokenAt(parser.lexer.input, 2)
        /\ status = "running" =>
              Kept(parser, parser') \/ Shifted(parser, parser')
      ]_vars

\* parse_stmt is entered with a full window after parse_let_stmt has taken
\* the current token twice and given up on a missing `=`, and parse_expr is
\* about to be entered for it
C14_Witness ==
    /\ At("parse_expr_stmt", "entry")
    /\ WindowFull(parser)
    /\ Len(parser.errors) >= 1
    /\ parser.errors[Len(parser.errors)].args[1] = Assign
    /\ parser.peek_token # Eof

====
